---- MODULE Spec2Model ----
(***************************************************************************)
(* Model of py2neo's generic REST client, src/src/py2neo/rest.py.          *)
(*                                                                         *)
(* One Resource object (self._uri, self._index, self.__response_headers)   *)
(* is used by the greenlets in procs.  Each greenlet runs one operation at *)
(* a time: a _request call (directly or through _get/_post/_put/_delete)   *)
(* or a _lookup call.  A _request call is a stack of frames, one per       *)
(* recursive call of line 126.  The transport (geventhttpclient) and the   *)
(* server are the environment: the response to a request is any element of *)
(* Served.  A greenlet gives up control only inside a blocking             *)
(* transport call (request, read); `running` is the greenlet that holds    *)
(* control, NoProc when every greenlet is blocked or idle.                 *)
(*                                                                         *)
(* Python strings are modelled as sequences of one-character strings, so   *)
(* that `key in string` is a real substring test.                          *)
(***************************************************************************)
EXTENDS Integers, Sequences, FiniteSets, TLC

-----------------------------------------------------------------------------
(* Bounds *)

\* longest chain of consecutive 302 answers the server gives to one call
MaxRedirects == 2
\* number of operations started in one behaviour
MaxOps == 2

-----------------------------------------------------------------------------
(* Python values *)

None == [tag |-> "None"]
Str(s) == [tag |-> "str", chars |-> s]
Dict(d) == [tag |-> "dict", items |-> d]

Procs == {1, 2}
NoProc == 0

\* URIs
U0 == <<"/">>
U1 == <<"/", "a">>
U2 == <<"/", "b">>
\* index keys
Keys == {<<"a">>, <<"k">>}
\* the index document served as JSON
IndexA == [k \in {<<"k">>} |-> Str(U1)]

\* raw response bodies (text); B_MAP is the JSON text of IndexA
B_EMPTY == <<>>
B_MAP == <<"{", "k", "}">>
B_BAD == <<"<">>
Bodies == {B_EMPTY, B_MAP, B_BAD}

\* request payload: None or a JSON text
NoData == None
Payload == Str(B_MAP)
\* lines 142-188: the method and payload _get, _post, _put and _delete pass on
VerbHelpers ==
    { [method |-> "GET", data |-> NoData], [method |-> "POST", data |-> Payload],
      [method |-> "PUT", data |-> Payload], [method |-> "DELETE", data |-> NoData] }

\* response.content_length when the header is missing (Python None)
NoLength == -1

-----------------------------------------------------------------------------
(* Outcomes of a call *)

Pending == [kind |-> "pending"]
Return(v) == [kind |-> "return", value |-> v]
Raise(e, v) == [kind |-> "raise", exc |-> e, arg |-> v]

-----------------------------------------------------------------------------
(* The transport's response objects *)

\* a header dictionary from optional header values (<<>> = header missing)
HeaderDict(cl, te, loc, cloc) ==
    LET val == [n \in {"content-length", "transfer-encoding", "location", "content-location"} |->
                  CASE n = "content-length" -> cl
                    [] n = "transfer-encoding" -> te
                    [] n = "location" -> loc
                    [] n = "content-location" -> cloc]
    IN [n \in {m \in DOMAIN val : val[m] # <<>>} |-> val[n]]

\* response[name]: the header's value, None when the header is missing
GetHeader(response, name) ==
    IF name \in DOMAIN response.headers THEN Str(response.headers[name]) ELSE None

MkResponse(status, hdrs, body, complete) ==
    [status_code |-> status,
     headers |-> hdrs,
     content_length |-> IF "content-length" \in DOMAIN hdrs THEN Len(body) ELSE NoLength,
     body |-> body,
     message_complete |-> complete,
     released |-> 0]

LengthText(body) == IF Len(body) = 0 THEN <<"0">> ELSE <<"n">>
TransferEncodings == {<<>>, <<"c", "h", "u", "n", "k", "e", "d">>, <<"g", "z">>}
Chunked == <<"c", "h", "u", "n", "k", "e", "d">>
ContentLocations == {<<>>, U2}

Responses200 ==
    { MkResponse(200, HeaderDict(IF hasLen THEN LengthText(b) ELSE <<>>, te, <<>>, cloc), b, mc) :
        hasLen \in BOOLEAN, te \in TransferEncodings, cloc \in ContentLocations,
        b \in Bodies, mc \in BOOLEAN }
Responses201 ==
    { MkResponse(201, HeaderDict(<<>>, <<>>, loc, cloc), B_EMPTY, mc) :
        loc \in {<<>>, U1, U2}, cloc \in ContentLocations, mc \in BOOLEAN }
Responses204 ==
    { MkResponse(204, HeaderDict(<<>>, <<>>, <<>>, cloc), B_EMPTY, mc) :
        cloc \in ContentLocations, mc \in BOOLEAN }
Responses302 ==
    { MkResponse(302, HeaderDict(<<>>, <<>>, loc, cloc), B_BAD, mc) :
        loc \in {U2}, cloc \in ContentLocations, mc \in BOOLEAN }
ResponsesError ==
    { MkResponse(st, HeaderDict(<<>>, <<>>, <<>>, <<>>), b, mc) :
        st \in {400, 404, 409, 500}, b \in {B_EMPTY, B_BAD}, mc \in BOOLEAN }
Responses == Responses200 \cup Responses201 \cup Responses204 \cup Responses302 \cup ResponsesError

\* the responses without Content-Location and Transfer-Encoding headers
PlainResponses ==
    { r \in Responses : DOMAIN r.headers \subseteq {"content-length", "location"} }

\* the responses served when several greenlets share the Resource
SharedResponses ==
    { r \in Responses :
        /\ r.status_code \in {200, 204, 302, 400}
        /\ r.status_code = 200 => r.body = B_MAP /\ DOMAIN r.headers \subseteq {"content-length", "content-location"}
                                    /\ r.content_length # NoLength
        /\ r.status_code # 200 => r.body # B_EMPTY \/ r.status_code = 204
        /\ r.status_code \in {302, 400} => ~r.message_complete /\ "content-location" \notin DOMAIN r.headers
        /\ r.status_code = 204 => r.message_complete }

-----------------------------------------------------------------------------
(* Pure helpers of rest.py *)

\* __get_request_headers: the names among keys that are Accept or Content-Type
get_request_headers(keys) == keys \cap {"Accept", "Content-Type"}

\* the header names _request asks for
RequestHeaders(data) ==
    IF data # None THEN get_request_headers({"Accept", "Content-Type"})
    ELSE get_request_headers({"Accept"})

\* a body expected only when a content length is given
HasBodyLengthOnly(response) ==
    response.content_length # NoLength /\ response.content_length # 0

\* the condition of lines 114-115
HasBody(response) ==
    \/ (response.content_length # NoLength /\ response.content_length # 0)
    \/ GetHeader(response, "transfer-encoding") = Str(Chunked)

\* json.load: reads the whole body and parses it
json_load(body) ==
    IF body = B_MAP THEN Return(Dict(IndexA))
    ELSE Raise("ValueError", Str(<<"j", "s", "o", "n">>))

\* Python's `key in s` for strings
IsSubstring(key, s) ==
    \E i \in 0..Len(s) : i + Len(key) <= Len(s) /\ SubSeq(s, i + 1, i + Len(key)) = key

\* lines 203-206 applied to the value held in self._index
IndexLookup(idx, key) ==
    CASE idx.tag = "dict" ->
           IF key \in DOMAIN idx.items THEN Return(idx.items[key])
           ELSE Raise("KeyError", Str(key))
      [] idx.tag = "str" ->
           IF IsSubstring(key, idx.chars) THEN Raise("TypeError", None)
           ELSE Raise("KeyError", Str(key))
      [] OTHER -> Raise("TypeError", None)

-----------------------------------------------------------------------------
VARIABLES
    uri,           \* self._uri
    index,         \* self._index
    respHeaders,   \* self.__response_headers
    ctor_index,    \* the index argument of __init__
    procs,         \* the greenlets that use the Resource
    server,        \* the kind of server the Resource talks to
    running,       \* the greenlet holding control
    stack,         \* per greenlet: the frames of its _request call
    op,            \* per greenlet: the operation it runs
    log,           \* per greenlet: requests issued during its operation
    closed,        \* per greenlet: the frames that have exited, innermost first
    nops,          \* operations started
    lookups        \* _lookup calls started

vars == <<uri, index, respHeaders, ctor_index, procs, server, running, stack, op, log, closed, nops, lookups>>

Unset == [n \in {"<unset>"} |-> <<>>]
NoResponse == [status_code |-> 0]
Idle == [kind |-> "none", phase |-> "idle", key |-> <<>>, out |-> Pending, uri0 |-> U0, nth |-> 0]

Frame(u) == [uri |-> u, pc |-> "await", response |-> NoResponse, out |-> Pending]
Top(p) == stack[p][Len(stack[p])]
SetTop(p, f) == [stack EXCEPT ![p] = [@ EXCEPT ![Len(@)] = f]]

InitCommon ==
    /\ uri = U0
    /\ index \in {None, Dict(IndexA)}
    /\ ctor_index = index
    /\ respHeaders = Unset
    /\ running = NoProc
    /\ stack = [p \in Procs |-> <<>>]
    /\ op = [p \in Procs |-> Idle]
    /\ log = [p \in Procs |-> <<>>]
    /\ closed = [p \in Procs |-> <<>>]
    /\ nops = 0
    /\ lookups = 0

\* one caller, any server
Init == InitCommon /\ procs = {1} /\ server = "any"

\* two greenlets share the Resource
InitShared == InitCommon /\ procs = Procs /\ server = "shared"

\* one caller, a server that sends no Content-Location and no Transfer-Encoding
InitPlain == InitCommon /\ procs = {1} /\ server = "plain"

\* what the server may answer
Served ==
    CASE server = "any" -> Responses
      [] server = "shared" -> SharedResponses
      [] server = "plain" -> PlainResponses

-----------------------------------------------------------------------------------------------------------------------------------------------------
(* _request *)

Request(method, u, data) ==
    [method |-> method, uri |-> u, data |-> data, headers |-> RequestHeaders(data)]

\* lines 105-110: build the headers and hand the request to the transport,
\* which blocks the greenlet until the response arrives
Issue(p, method, u, data, lg) ==
    /\ stack' = [stack EXCEPT ![p] = Append(@, Frame(u))]
    /\ log' = [log EXCEPT ![p] = Append(lg, Request(method, u, data))]
    /\ running' = NoProc

\* a caller starts _request(method, u, data); _get, _post, _put, _delete are
\* the cases (GET, None), (POST, payload), (PUT, payload), (DELETE, None)
StartRequest(p, method, u, data) ==
    /\ running = NoProc
    /\ op[p].phase \in {"idle", "done"}
    /\ nops < MaxOps
    /\ nops' = nops + 1
    /\ op' = [op EXCEPT ![p] = [Idle EXCEPT !.kind = "request", !.phase = "call", !.uri0 = uri]]
    /\ closed' = [closed EXCEPT ![p] = <<>>]
    /\ Issue(p, method, u, data, <<>>)
    /\ UNCHANGED <<uri, index, respHeaders, ctor_index, procs, server, lookups>>

\* lines 110-112: the transport returns a response; its headers are recorded
Respond(p, r) ==
    /\ running = NoProc
    /\ stack[p] # <<>>
    /\ Top(p).pc = "await"
    /\ r.status_code = 302 => Len(stack[p]) <= MaxRedirects
    /\ respHeaders' = r.headers
    /\ stack' = SetTop(p, [Top(p) EXCEPT !.response = r, !.pc = "dispatch"])
    /\ running' = p
    /\ UNCHANGED <<uri, index, ctor_index, procs, server, op, log, closed, nops, lookups>>

\* the branches with a guard against a redirect to the requested URI itself
BranchLoopGuard(f) ==
    LET r == f.response IN
    CASE r.status_code = 200 ->
           IF HasBody(r) THEN [f EXCEPT !.pc = "parse"]
           ELSE [f EXCEPT !.pc = "finally", !.out = Return(None)]
      [] r.status_code = 201 ->
           [f EXCEPT !.pc = "finally", !.out = Return(GetHeader(r, "location"))]
      [] r.status_code = 204 ->
           [f EXCEPT !.pc = "finally", !.out = Return(None)]
      [] r.status_code = 302 ->
           IF GetHeader(r, "location") = Str(f.uri)
           THEN [f EXCEPT !.pc = "finally", !.out = Raise("SystemError", Str(f.uri))]
           ELSE IF ~r.message_complete THEN [f EXCEPT !.pc = "drain"]
           ELSE [f EXCEPT !.pc = "follow"]
      [] r.status_code = 400 -> [f EXCEPT !.pc = "read_error"]
      [] r.status_code = 404 ->
           [f EXCEPT !.pc = "finally", !.out = Raise("LookupError", Str(f.uri))]
      [] r.status_code = 409 ->
           [f EXCEPT !.pc = "finally", !.out = Raise("SystemError", Str(f.uri))]
      [] OTHER -> [f EXCEPT !.pc = "read_error"]

\* lines 113-134: the branch taken for the response's status, up to the next
\* transport call (json.load, read, the follow-up request) or to the finally
Branch(f) ==
    LET r == f.response IN
    CASE r.status_code = 200 ->
           IF HasBody(r) THEN [f EXCEPT !.pc = "parse"]
           ELSE [f EXCEPT !.pc = "finally", !.out = Return(None)]
      [] r.status_code = 201 ->
           [f EXCEPT !.pc = "finally", !.out = Return(GetHeader(r, "location"))]
      [] r.status_code = 204 ->
           [f EXCEPT !.pc = "finally", !.out = Return(None)]
      [] r.status_code = 302 ->
           IF ~r.message_complete THEN [f EXCEPT !.pc = "drain"]
           ELSE [f EXCEPT !.pc = "follow"]
      [] r.status_code = 400 -> [f EXCEPT !.pc = "read_error"]
      [] r.status_code = 404 ->
           [f EXCEPT !.pc = "finally", !.out = Raise("LookupError", Str(f.uri))]
      [] r.status_code = 409 ->
           [f EXCEPT !.pc = "finally", !.out = Raise("SystemError", Str(f.uri))]
      [] OTHER -> [f EXCEPT !.pc = "read_error"]

\* a read of the body suspends the greenlet unless the message is complete
Suspends(f) ==
    f.pc \in {"parse", "drain", "read_error"} /\ ~f.response.message_complete

Dispatch(p) ==
    /\ running = p
    /\ stack[p] # <<>>
    /\ Top(p).pc = "dispatch"
    /\ stack' = SetTop(p, Branch(Top(p)))
    /\ running' = IF Suspends(Branch(Top(p))) THEN NoProc ELSE p
    /\ UNCHANGED <<uri, index, respHeaders, ctor_index, procs, server, op, log, closed, nops, lookups>>

\* response.read(): the rest of the body is read
Read(response) == [response EXCEPT !.message_complete = TRUE]

\* line 116: json.load(response) reads the body and parses it
Parse(p) ==
    /\ running \in {p, NoProc}
    /\ stack[p] # <<>>
    /\ Top(p).pc = "parse"
    /\ stack' = SetTop(p, [Top(p) EXCEPT !.response = Read(@),
                                         !.out = json_load(Top(p).response.body),
                                         !.pc = "finally"])
    /\ running' = p
    /\ UNCHANGED <<uri, index, respHeaders, ctor_index, procs, server, op, log, closed, nops, lookups>>

\* lines 124-125: the unread body of a 302 is read
Drain(p) ==
    /\ running \in {p, NoProc}
    /\ stack[p] # <<>>
    /\ Top(p).pc = "drain"
    /\ stack' = SetTop(p, [Top(p) EXCEPT !.response = Read(@), !.pc = "follow"])
    /\ running' = p
    /\ UNCHANGED <<uri, index, respHeaders, ctor_index, procs, server, op, log, closed, nops, lookups>>

\* a follow-up against the URI of the redirected request
FollowUpSameUri(f) == Request("GET", f.uri, NoData)

\* the arguments of the recursive call of line 126
FollowUp(f) == Request("GET", GetHeader(f.response, "location").chars, NoData)

\* line 126: the recursive call, up to its transport request
Follow(p) ==
    /\ running = p
    /\ stack[p] # <<>>
    /\ Top(p).pc = "follow"
    /\ LET q == FollowUp(Top(p)) IN
         /\ stack' = [stack EXCEPT ![p] =
                        Append([@ EXCEPT ![Len(@)] = [Top(p) EXCEPT !.pc = "wait"]], Frame(q.uri))]
         /\ log' = [log EXCEPT ![p] = Append(@, q)]
    /\ running' = NoProc
    /\ UNCHANGED <<uri, index, respHeaders, ctor_index, procs, server, op, closed, nops, lookups>>

\* every error with a body raised as the generic error
BodyErrorGeneric(f) == Raise("SystemError", Str(f.response.body))

\* lines 128 and 134: the error raised with the response body
BodyError(f) ==
    IF f.response.status_code = 400 THEN Raise("ValueError", Str(f.response.body))
    ELSE Raise("SystemError", Str(f.response.body))

ReadError(p) ==
    /\ running \in {p, NoProc}
    /\ stack[p] # <<>>
    /\ Top(p).pc = "read_error"
    /\ stack' = SetTop(p, [Top(p) EXCEPT !.response = Read(@),
                                         !.out = BodyError(Top(p)),
                                         !.pc = "finally"])
    /\ running' = p
    /\ UNCHANGED <<uri, index, respHeaders, ctor_index, procs, server, op, log, closed, nops, lookups>>

\* release() reached only when the try block returned
ReleaseOnReturn(f) ==
    IF f.out.kind = "raise" THEN [f EXCEPT !.pc = "exit"]
    ELSE [f EXCEPT !.response.released = @ + 1, !.pc = "exit"]

\* line 140: response.release()
Release(f) == [f EXCEPT !.response.released = @ + 1, !.pc = "exit"]

\* lines 139-140: the finally clause, on return and on raise
Finally(p) ==
    /\ running = p
    /\ stack[p] # <<>>
    /\ Top(p).pc = "finally"
    /\ stack' = SetTop(p, Release(Top(p)))
    /\ UNCHANGED <<uri, index, respHeaders, ctor_index, procs, server, running, op, log, closed, nops, lookups>>

\* line 126: the recursive call returns or raises into the calling frame,
\* which returns or raises the same
ReturnToFrame(p) ==
    /\ running = p
    /\ Len(stack[p]) > 1
    /\ Top(p).pc = "exit"
    /\ LET n == Len(stack[p])
           parent == stack[p][n - 1]
       IN stack' = [stack EXCEPT ![p] =
                      Append(SubSeq(@, 1, n - 2), [parent EXCEPT !.out = Top(p).out, !.pc = "finally"])]
    /\ closed' = [closed EXCEPT ![p] = Append(@, Top(p))]
    /\ UNCHANGED <<uri, index, respHeaders, ctor_index, procs, server, running, op, log, nops, lookups>>

\* the outermost _request returns or raises to the caller of the operation
ReturnToCaller(p) ==
    /\ running = p
    /\ Len(stack[p]) = 1
    /\ Top(p).pc = "exit"
    /\ op[p].kind = "request"
    /\ stack' = [stack EXCEPT ![p] = <<>>]
    /\ closed' = [closed EXCEPT ![p] = Append(@, Top(p))]
    /\ op' = [op EXCEPT ![p].out = Top(p).out, ![p].phase = "done"]
    /\ running' = NoProc
    /\ UNCHANGED <<uri, index, respHeaders, ctor_index, procs, server, log, nops, lookups>>

-----------------------------------------------------------------------------
(* _lookup *)

\* an index taken to be missing on every call
NoIndexEver(idx) == TRUE

\* line 198: self._index is None
NoIndex(idx) == idx = None

\* lines 198-199: _lookup(key) fetches the index when there is none
StartLookup(p, key) ==
    /\ running = NoProc
    /\ op[p].phase \in {"idle", "done"}
    /\ nops < MaxOps
    /\ nops' = nops + 1
    /\ lookups' = lookups + 1
    /\ closed' = [closed EXCEPT ![p] = <<>>]
    /\ IF NoIndex(index)
       THEN /\ op' = [op EXCEPT ![p] = [Idle EXCEPT !.kind = "lookup", !.phase = "fetch",
                                                     !.key = key, !.uri0 = uri, !.nth = lookups + 1]]
            /\ Issue(p, "GET", uri, NoData, <<>>)
       ELSE /\ op' = [op EXCEPT ![p] = [Idle EXCEPT !.kind = "lookup", !.phase = "find",
                                                     !.key = key, !.uri0 = uri, !.nth = lookups + 1]]
            /\ log' = [log EXCEPT ![p] = <<>>]
            /\ running' = p
            /\ UNCHANGED stack
    /\ UNCHANGED <<uri, index, respHeaders, ctor_index, procs, server>>

\* the URI taken from the Location header
AdoptedUriLocation(headers, u) ==
    IF "location" \in DOMAIN headers THEN headers["location"] ELSE u

\* lines 200-202: the URI adopted from the recorded response headers
AdoptedUri(headers, u) ==
    IF "content-location" \in DOMAIN headers THEN headers["content-location"] ELSE u

\* lines 199-202: _get returns into _lookup, or raises through it
LookupFetched(p) ==
    /\ running = p
    /\ Len(stack[p]) = 1
    /\ Top(p).pc = "exit"
    /\ op[p].kind = "lookup"
    /\ stack' = [stack EXCEPT ![p] = <<>>]
    /\ closed' = [closed EXCEPT ![p] = Append(@, Top(p))]
    /\ IF Top(p).out.kind = "raise"
       THEN /\ op' = [op EXCEPT ![p].out = Top(p).out, ![p].phase = "done"]
            /\ running' = NoProc
            /\ UNCHANGED <<uri, index>>
       ELSE /\ index' = Top(p).out.value
            /\ uri' = AdoptedUri(respHeaders, uri)
            /\ op' = [op EXCEPT ![p].phase = "find"]
            /\ running' = p
    /\ UNCHANGED <<respHeaders, ctor_index, procs, server, log, nops, lookups>>

\* lines 203-206
LookupFind(p) ==
    /\ running = p
    /\ op[p].phase = "find"
    /\ op' = [op EXCEPT ![p].out = IndexLookup(index, op[p].key), ![p].phase = "done"]
    /\ running' = NoProc
    /\ UNCHANGED <<uri, index, respHeaders, ctor_index, procs, server, stack, log, closed, nops, lookups>>

-----------------------------------------------------------------------------
(* Views of the state used by the properties *)

\* every frame of p's current operation, live or exited
Frames(p) == {stack[p][i] : i \in DOMAIN stack[p]} \cup {closed[p][i] : i \in DOMAIN closed[p]}
\* the frames that have received their response
Answered(p) == {f \in Frames(p) : f.pc # "await"}
\* the frames that have left the try block with an outcome
Decided(p) == {f \in Frames(p) : f.out # Pending}
\* p's operation is over
Done(p) == op[p].phase = "done"

-----------------------------------------------------------------------------
(* C1 *)

\* C1: every response obtained by _request is released exactly once: not
\* before its frame reaches the finally clause, once from then on, whatever
\* the exit path; when the call has returned or failed every request it
\* issued has a response, and each of them has been released once.
C1_ReleasedExactlyOnce ==
    \A p \in Procs :
        /\ \A f \in Answered(p) : f.response.released = IF f.pc = "exit" THEN 1 ELSE 0
        /\ op[p].phase \in {"find", "done"} =>
             /\ stack[p] = <<>>
             /\ Len(closed[p]) = Len(log[p])

\* a call that went through a redirect and failed while parsing the JSON body
C1_Witness ==
    \E p \in Procs :
        /\ Done(p) /\ op[p].kind = "request"
        /\ Len(closed[p]) > 1
        /\ closed[p][1].response.status_code = 200
        /\ op[p].out = Raise("ValueError", Str(<<"j", "s", "o", "n">>))

-----------------------------------------------------------------------------
(* C2 *)

\* C2: on every exit path of _request, a response whose body has not been
\* read completely is drained before release(): a released response is
\* always message-complete.
C2_DrainedBeforeRelease ==
    \A p \in Procs : \A f \in Answered(p) :
        f.response.released > 0 => f.response.message_complete

-----------------------------------------------------------------------------
(* C3 *)

\* the GET that fetches the index of a resource whose URI is u
IndexGet(u) == [method |-> "GET", uri |-> u, data |-> None, headers |-> {"Accept"}]

\* C3 as stated: for a Resource constructed without an index, the first
\* _lookup issues exactly one GET, against the resource's own URI, and every
\* later _lookup issues no request at all.
C3_OneGetEver ==
    \A p \in Procs :
        (ctor_index = None /\ op[p].kind = "lookup" /\ Done(p)) =>
            IF op[p].nth = 1 THEN log[p] = <<IndexGet(op[p].uri0)>> ELSE log[p] = <<>>

\* the number of 302 answers among the frames of p's operation
Redirects(p) == Cardinality({i \in DOMAIN closed[p] : closed[p][i].response.status_code = 302})

\* C3 amended: a _lookup issues requests only while the resource holds no
\* index (self._index is None): one GET against the resource's current URI,
\* plus one follow-up GET for each 302 answer.  A _lookup on a resource that
\* holds an index issues no request, and an index once held is never
\* replaced.
C3_FetchOnlyWithoutIndex ==
    /\ [](\A p \in Procs :
            (op[p].kind = "lookup" /\ log[p] # <<>>) =>
                /\ log[p][1] = IndexGet(op[p].uri0)
                /\ \A i \in DOMAIN log[p] : log[p][i].method = "GET" /\ log[p][i].data = None
                /\ op[p].phase \in {"find", "done"} => Len(log[p]) = 1 + Redirects(p))
    /\ [][\A p \in Procs :
            /\ index # None => index' = index
            /\ (index # None /\ op'[p].kind = "lookup") => (log'[p] = log[p] \/ log'[p] = <<>>)
            /\ (index = None /\ lookups' = lookups + 1 /\ op'[p].nth = lookups') =>
                  log'[p] = <<IndexGet(uri)>>]_vars

\* after a first _lookup has fetched the index, a second one has completed
\* without any request
C3_Witness ==
    \E p \in Procs :
        /\ ctor_index = None /\ index # None
        /\ op[p].kind = "lookup" /\ op[p].nth = 2 /\ Done(p)
        /\ log[p] = <<>>

-----------------------------------------------------------------------------
(* C4 *)

\* C4: a frame that received a 302 with Location X has, by the time it has
\* called on, read the body of the 302 completely, and the request that
\* follows its own in the log is GET X with no payload (Accept header only);
\* every frame issues one request, so there is exactly one follow-up; and the
\* outcome of the frame is the outcome of the follow-up call, up to the
\* caller of the outermost _request.
C4_RedirectFollowedByGet ==
    \A p \in Procs :
        /\ stack[p] # <<>> => Len(log[p]) = Len(stack[p]) + Len(closed[p])
        /\ \A i \in DOMAIN stack[p] :
             LET f == stack[p][i] IN
             /\ (i < Len(stack[p])) = (f.pc = "wait")
             /\ f.pc = "wait" =>
                  /\ f.response.status_code = 302
                  /\ f.response.message_complete
                  /\ log[p][i + 1] = [method |-> "GET", uri |-> f.response.headers["location"],
                                      data |-> None, headers |-> {"Accept"}]
             /\ (f.pc \in {"finally", "exit"} /\ f.response.status_code = 302) =>
                  closed[p] # <<>> /\ f.out = closed[p][Len(closed[p])].out
        /\ \A i \in DOMAIN closed[p] :
             (i > 1) = (closed[p][i].response.status_code = 302)
        /\ \A i \in DOMAIN closed[p] :
             i > 1 => /\ closed[p][i].out = closed[p][i - 1].out
                      /\ closed[p][i - 1].uri = closed[p][i].response.headers["location"]
        /\ (Done(p) /\ op[p].kind = "request") => op[p].out = closed[p][1].out

\* a POST with a payload was redirected and returned what the follow-up GET
\* returned
C4_Witness ==
    \E p \in Procs :
        /\ Done(p) /\ op[p].kind = "request"
        /\ Len(log[p]) = 2
        /\ log[p][1].method = "POST" /\ log[p][1].data # None
        /\ log[p][2].method = "GET" /\ log[p][2].data = None /\ log[p][2].uri # log[p][1].uri
        /\ op[p].out = Return(Dict(IndexA))

-----------------------------------------------------------------------------
(* C5 *)

ErrorStatuses == {400, 404, 409, 500}

-----------------------------------------------------------------------------
(* C6 *)

HeaderPresent(f, name) == name \in DOMAIN f.response.headers
IsChunked(f) ==
    HeaderPresent(f, "transfer-encoding") /\ f.response.headers["transfer-encoding"] = Chunked

\* C6 as stated: for 200 the result is the parsed JSON body when a
\* content-length is present or the transfer-encoding is chunked, and None
\* otherwise; for 201 the Location header value; for 204 None.
C6_ResultByStatus ==
    \A p \in Procs : \A f \in Decided(p) :
        LET st == f.response.status_code IN
        /\ st = 200 => f.out = IF HeaderPresent(f, "content-length") \/ IsChunked(f)
                               THEN json_load(f.response.body)
                               ELSE Return(None)
        /\ st = 201 => f.out = Return(IF HeaderPresent(f, "location")
                                      THEN Str(f.response.headers["location"]) ELSE None)
        /\ st = 204 => f.out = Return(None)

\* C6 amended: for 200 the result is the outcome of parsing the body as JSON
\* (the parsed value, or the parser's error) when the content-length is
\* positive or the transfer-encoding is chunked, and None when the
\* content-length is absent or zero and the encoding is not chunked; for 201
\* the Location header value, the body not being parsed; for 204 None.
C6_ResultByStatusAndLength ==
    \A p \in Procs :
        /\ \A f \in Decided(p) :
             LET st == f.response.status_code IN
             /\ st = 200 => f.out = IF (HeaderPresent(f, "content-length")
                                          /\ f.response.headers["content-length"] # <<"0">>)
                                       \/ IsChunked(f)
                                    THEN json_load(f.response.body)
                                    ELSE Return(None)
             /\ st = 201 => f.out = Return(IF HeaderPresent(f, "location")
                                           THEN Str(f.response.headers["location"]) ELSE None)
             /\ st = 204 => f.out = Return(None)
        /\ \A f \in Answered(p) :
             f.pc = "parse" => f.response.status_code = 200

\* a 200 answer with Content-Length: 0 and no chunked encoding gave None
C6_Witness ==
    \E p \in Procs : \E f \in Decided(p) :
        /\ f.response.status_code = 200
        /\ HeaderPresent(f, "content-length") /\ f.response.content_length = 0
        /\ ~IsChunked(f)
        /\ f.out = Return(None)

-----------------------------------------------------------------------------
(* C7 *)

\* the value _get returned to _lookup, when it returned
Fetched(p) ==
    /\ op[p].kind = "lookup" /\ op[p].phase \in {"find", "done"}
    /\ closed[p] # <<>>
    /\ closed[p][Len(closed[p])].out.kind = "return"

\* C7: the resource's URI differs from the URI it had when the operation
\* started only after a _lookup whose index GET returned, the response that
\* delivered the index (the last one of the redirect chain) carrying a
\* Content-Location header; the URI is then that header's value.  A request
\* operation, a _lookup with an index at hand, a _lookup whose GET failed and
\* a _lookup whose index response has no Content-Location leave it unchanged.
C7_UriFromContentLocation ==
    \A p \in procs :
        uri = IF Fetched(p) /\ "content-location" \in DOMAIN closed[p][1].response.headers
              THEN closed[p][1].response.headers["content-location"]
              ELSE op[p].uri0

\* the index came through a redirect whose 302 answer had no
\* Content-Location, the final answer had one, and the URI was adopted; the
\* key was then found in the index
C7_Witness ==
    \E p \in procs :
        /\ Fetched(p) /\ Done(p)
        /\ Len(closed[p]) = 2
        /\ "content-location" \notin DOMAIN closed[p][2].response.headers
        /\ "location" \in DOMAIN closed[p][2].response.headers
        /\ uri = U2 /\ op[p].uri0 = U0
        /\ op[p].out.kind = "return"

-----------------------------------------------------------------------------
(* C8 *)

\* C8: once the index GET (if one was needed) has completed without
\* raising, _lookup(key) either returns a value or fails with KeyError(key).
C8_ValueOrKeyError ==
    \A p \in Procs :
        (op[p].kind = "lookup" /\ Done(p) /\ (closed[p] = <<>> \/ Fetched(p))) =>
            \/ op[p].out.kind = "return"
            \/ op[p].out = Raise("KeyError", Str(op[p].key))

-----------------------------------------------------------------------------
(* C9 *)

\* the redirecting answers p's call has acted on
Followed(p) ==
    Cardinality({i \in DOMAIN stack[p] : stack[p][i].pc \in {"wait", "finally", "exit"}
                                          /\ stack[p][i].response.status_code = 302})
    + Cardinality({i \in DOMAIN closed[p] : closed[p][i].response.status_code = 302})

-----------------------------------------------------------------------------
(* C10 *)

\* C10: the URI a _lookup adopts is the Content-Location of the response to
\* its own index GET; without that header the URI stays as it is, whatever
\* other requests of the same Resource were answered in the meantime.
C10_AdoptsOwnContentLocation ==
    [][\A p \in Procs :
          (op[p].phase = "fetch" /\ op'[p].phase = "find") =>
              uri' = IF "content-location" \in DOMAIN closed'[p][1].response.headers
                     THEN closed'[p][1].response.headers["content-location"]
                     ELSE uri]_vars

-----------------------------------------------------------------------------
Next ==
    \E p \in procs :
        \/ \E c \in VerbHelpers : StartRequest(p, c.method, U1, c.data)
        \/ \E k \in Keys : StartLookup(p, k)
        \/ \E r \in Served : Respond(p, r)
        \/ Dispatch(p)
        \/ Parse(p)
        \/ Drain(p)
        \/ Follow(p)
        \/ ReadError(p)
        \/ Finally(p)
        \/ ReturnToFrame(p)
        \/ ReturnToCaller(p)
        \/ LookupFetched(p)
        \/ LookupFind(p)

Spec == Init /\ [][Next]_vars

\* the steps a greenlet takes by itself once the transport has answered
Progress(p) ==
    \/ Dispatch(p) \/ Parse(p) \/ Drain(p) \/ Follow(p) \/ ReadError(p) \/ Finally(p)
    \/ ReturnToFrame(p) \/ ReturnToCaller(p) \/ LookupFetched(p) \/ LookupFind(p)

\* a greenlet that can run does run; the server need not answer
SpecFair == InitPlain /\ [][Next]_vars /\ \A p \in Procs : WF_vars(Progress(p))

SpecShared == InitShared /\ [][Next]_vars
====
